---- MODULE Spec2Model ----
(***************************************************************************)
(* Wait-time estimator of wattz-up-v2 (src/lib/services/estimator.ts).     *)
(*                                                                         *)
(* The repository tables (stations, observations, session_stats_hourly)    *)
(* are the state the estimator reads; every estimateWaitTime call is a     *)
(* small process that stops at each await (one repository read), and       *)
(* estimateWaitTimeBatch runs one such process per input identifier.       *)
(*                                                                         *)
(* Numbers: JavaScript doubles are modelled as exact rationals [n, d];     *)
(* times are milliseconds since the epoch; a nullable column or variable   *)
(* is <<>> (null) or <<v>>.                                                *)
(***************************************************************************)
EXTENDS Integers, Sequences, FiniteSets, Bags, TLC

VARIABLES
  stations,       \* table stations: set of rows (id is the primary key)
  observations,   \* table observations: bag of rows (rows differ in id only)
  sessionStats,   \* table session_stats_hourly: set of rows
  now,            \* the wall clock, Date.now()
  tasks,          \* the estimateWaitTime calls in flight, one record each
  stationIds,     \* argument of the running estimateWaitTimeBatch call
  estimates,      \* the Map built by estimateWaitTimeBatch
  batchPc,        \* "idle", "running", "returned" (batch) or "single"
  users,          \* table users: set of rows (device_id is unique)
  alerts,         \* table alerts: set of rows (id is the primary key)
  requests        \* the POST handlers in flight, one record each

vars == <<stations, observations, sessionStats, now, tasks, stationIds,
          estimates, batchPc, users, alerts, requests>>

repo == <<stations, observations, sessionStats>>

\* what the HTTP handlers beside the estimator work on
web == <<users, alerts, requests>>

-----------------------------------------------------------------------------
(* Nullable values and JavaScript truthiness                               *)

NULL == <<>>
Some(v) == <<v>>
IsNull(x) == x = <<>>

-----------------------------------------------------------------------------
(* Exact rationals standing for the doubles of the code                    *)

RECURSIVE Gcd(_, _)
Gcd(a, b) == IF b = 0 THEN a ELSE Gcd(b, a % b)

Abs(x) == IF x < 0 THEN 0 - x ELSE x

Rat(n, d) ==
  LET g == Gcd(Abs(n), Abs(d))
      s == IF d < 0 THEN 0 - 1 ELSE 1
  IN  [n |-> (s * n) \div g, d |-> (s * d) \div g]

Int2Rat(i) == [n |-> i, d |-> 1]
RMul(a, b) == Rat(a.n * b.n, a.d * b.d)
RDiv(a, b) == Rat(a.n * b.d, a.d * b.n)
RAdd(a, b) == Rat(a.n * b.d + b.n * a.d, a.d * b.d)
RLe(a, b) == a.n * b.d <= b.n * a.d
RLt(a, b) == a.n * b.d < b.n * a.d
RMax(a, b) == IF RLe(a, b) THEN b ELSE a
RMin(a, b) == IF RLe(a, b) THEN a ELSE b
\* Math.ceil
RCeil(a) == 0 - ((0 - a.n) \div a.d)
\* Math.floor(x / y) on integers, y > 0
FloorDiv(x, y) == x \div y

Min(a, b) == IF a <= b THEN a ELSE b

-----------------------------------------------------------------------------
(* Program constants                                                       *)

\* INDUSTRY_DEFAULTS.DC_FAST.medianSessionMin
DcFastMedianSessionMin == 25
\* INDUSTRY_DEFAULTS.LEVEL_2.medianSessionMin
Level2MedianSessionMin == 120
\* getIndustryDefault: maxPowerKw < 50 is Level 2
DcFastMinPowerKw == 50
\* getRecentObservations: .limit(50)
ObservationLimit == 50
\* estimateWaitTime: getRecentObservations(stationId, 2)
HoursBack == 2
\* getStationMetadata: data.stalls_total ?? 4, and stationMeta.stallsTotal || 4
DefaultStalls == 4
\* estimateWaitTime: let freshnessMinutes = 60
DefaultFreshnessMinutes == 60
\* calculateConfidence: dataPointsLast24h / 20
SignalSaturation == 20
MsPerMinute == 60000
MsPerHour == 60 * 60 * 1000
MsPerDay == 24 * MsPerHour

EstimationMode == [realtime |-> "realtime", hybrid |-> "hybrid",
                   fallback |-> "fallback", no_data |-> "no_data"]

ConfidenceSource == {"crowd_recent", "historical", "heuristic", "realtime_api"}

-----------------------------------------------------------------------------
(* Helpers of estimator.ts                                                 *)

\* mutant: the class boundaries are strict
getPopularityMultiplier_Strict(stallsTotal) ==
  IF stallsTotal < 4 THEN Rat(8, 10)
  ELSE IF stallsTotal < 8 THEN Rat(10, 10)
  ELSE Rat(12, 10)

getPopularityMultiplier(stallsTotal) ==
  IF stallsTotal <= 4 THEN Rat(8, 10)
  ELSE IF stallsTotal <= 8 THEN Rat(10, 10)
  ELSE Rat(12, 10)

\* mutant: a station of unknown power is taken for a DC fast charger
getIndustryDefault_NullIsFast(maxPowerKw) ==
  IF ~IsNull(maxPowerKw) /\ maxPowerKw[1] < DcFastMinPowerKw
  THEN Level2MedianSessionMin
  ELSE DcFastMedianSessionMin

\* !maxPowerKw is true of null and of 0
getIndustryDefault(maxPowerKw) ==
  IF IsNull(maxPowerKw) \/ maxPowerKw[1] = 0 \/ maxPowerKw[1] < DcFastMinPowerKw
  THEN Level2MedianSessionMin
  ELSE DcFastMedianSessionMin

Includes(seq, x) == \E i \in DOMAIN seq : seq[i] = x

\* mutant: the historical tag is looked for before the crowd tag
baseConfidence_HistoricalFirst(sources) ==
  IF Includes(sources, "historical") THEN Rat(4, 10)
  ELSE IF Includes(sources, "crowd_recent") THEN Rat(5, 10)
  ELSE Rat(3, 10)

baseConfidence(sources) ==
  IF Includes(sources, "crowd_recent") THEN Rat(5, 10)
  ELSE IF Includes(sources, "historical") THEN Rat(4, 10)
  ELSE Rat(3, 10)

\* mutant: the factor grows with the age instead of decaying
freshnessFactor_Growing(freshnessMinutes) ==
  RMax(Rat(3, 10), Rat(freshnessMinutes, 60))

freshnessFactor(freshnessMinutes) ==
  RMax(Rat(3, 10), Rat(60 - freshnessMinutes, 60))

\* mutant: the signal is taken at full strength, whatever the count
signalStrength_Full(dataPointsLast24h) == Int2Rat(1)

\* mutant: the strength saturates at 10 observations
signalStrength_HalfSaturation(dataPointsLast24h) ==
  RMin(Int2Rat(1), Rat(dataPointsLast24h, 10))

signalStrength(dataPointsLast24h) ==
  RMin(Int2Rat(1), Rat(dataPointsLast24h, SignalSaturation))

rawConfidence(sources, freshnessMinutes, dataPointsLast24h) ==
  RMul(RMul(baseConfidence(sources), freshnessFactor(freshnessMinutes)),
       signalStrength(dataPointsLast24h))

\* mutant: the clamp to [0.3, 0.6] is left out
calculateConfidence_NoClamp(sources, freshnessMinutes, dataPointsLast24h) ==
  rawConfidence(sources, freshnessMinutes, dataPointsLast24h)

calculateConfidence(sources, freshnessMinutes, dataPointsLast24h) ==
  RMax(Rat(3, 10),
       RMin(Rat(6, 10),
            rawConfidence(sources, freshnessMinutes, dataPointsLast24h)))

-----------------------------------------------------------------------------
(* JavaScript operators on nullable values                                 *)

\* x is truthy: neither null nor 0
Truthy(x) == ~IsNull(x) /\ x[1] # 0
\* x || d
OrElse(x, d) == IF Truthy(x) THEN x[1] ELSE d
\* x ?? d
Coalesce(x, d) == IF IsNull(x) THEN d ELSE x[1]

\* new Date(t).getDay() and .getHours(), the server running in UTC
\* (1 January 1970 was a Thursday, day 4)
getDay(t) == ((t \div MsPerDay) + 4) % 7
getHours(t) == (t \div MsPerHour) % 24

-----------------------------------------------------------------------------
(* Data fetchers: the supabase queries and what the fetchers make of them. *)
(* A query answers { data, error }; outcome "error" is a failed query,     *)
(* outcome "ok" a query that ran (a thrown exception is handled by the     *)
(* calling action).                                                        *)

Outcomes == {"ok", "error", "throw"}

Failed == [data |-> NULL, error |-> TRUE]

\* .single(): exactly one row, else an error
single(rows) ==
  IF Cardinality(rows) = 1
  THEN [data |-> Some(CHOOSE r \in rows : TRUE), error |-> FALSE]
  ELSE Failed

getStationMetadata(stationId, outcome) ==
  LET resp == IF outcome = "error" THEN Failed
              ELSE single({r \in stations : r.id = stationId})
  IN  IF resp.error \/ IsNull(resp.data) THEN NULL
      ELSE Some([id |-> resp.data[1].id,
                 stallsTotal |-> Coalesce(resp.data[1].stalls_total, DefaultStalls),
                 maxPowerKw |-> resp.data[1].max_power_kw])

\* Number(x) || 0 on a DECIMAL column
NumberOrZero(x) == IF IsNull(x) THEN Int2Rat(0) ELSE x[1]

\* mutant: the lookup is by station and day, the hour is not compared
getSessionStats_AnyHour(stationId, dayOfWeek, hourOfDay, outcome, t) ==
  LET resp == IF outcome = "error" THEN Failed
              ELSE single({r \in sessionStats :
                             /\ r.station_id = stationId
                             /\ r.day_of_week = dayOfWeek})
  IN  IF resp.error \/ IsNull(resp.data) THEN NULL
      ELSE Some([station_id |-> resp.data[1].station_id,
                 day_of_week |-> resp.data[1].day_of_week,
                 hour_of_day |-> resp.data[1].hour_of_day,
                 median_session_min |-> NumberOrZero(resp.data[1].median_session_min),
                 last_computed_at |-> Coalesce(resp.data[1].last_computed_at, t)])

\* dayOfWeek and hourOfDay were taken from the clock when the call was made;
\* t is the clock when the answer is mapped (new Date().toISOString())
getSessionStats(stationId, dayOfWeek, hourOfDay, outcome, t) ==
  LET resp == IF outcome = "error" THEN Failed
              ELSE single({r \in sessionStats :
                             /\ r.station_id = stationId
                             /\ r.day_of_week = dayOfWeek
                             /\ r.hour_of_day = hourOfDay})
  IN  IF resp.error \/ IsNull(resp.data) THEN NULL
      ELSE Some([station_id |-> resp.data[1].station_id,
                 day_of_week |-> resp.data[1].day_of_week,
                 hour_of_day |-> resp.data[1].hour_of_day,
                 median_session_min |-> NumberOrZero(resp.data[1].median_session_min),
                 last_computed_at |-> Coalesce(resp.data[1].last_computed_at, t)])

\* cutoff of getRecentObservations, taken from the clock when the call is made
Cutoff(t, hoursBack) == t - hoursBack * 60 * 60 * 1000

\* rows selected by .eq('station_id', stationId).gte('observed_at', cutoff)
MatchingObservations(stationId, cutoff) ==
  {r \in DOMAIN observations : r.station_id = stationId /\ r.observed_at >= cutoff}

\* the orders .order('observed_at', { ascending: false }) may give to a set
\* of distinct rows: rows of equal observed_at come in any order
OrderedDesc(rows) ==
  {p \in [1..Cardinality(rows) -> rows] :
     /\ \A i, j \in DOMAIN p : i # j => p[i] # p[j]
     /\ \A i, j \in DOMAIN p : i < j => p[i].observed_at >= p[j].observed_at}

RECURSIVE CopiesUpTo(_, _)
\* number of table rows in the first k runs of an ordered sequence p
CopiesUpTo(p, k) == IF k = 0 THEN 0 ELSE CopiesUpTo(p, k - 1) + observations[p[k]]

\* every table row of the ordered distinct rows, copy by copy
Expand(p) ==
  [i \in 1..CopiesUpTo(p, Len(p)) |->
     p[CHOOSE k \in DOMAIN p : CopiesUpTo(p, k - 1) < i /\ i <= CopiesUpTo(p, k)]]

\* mutant: the list is not truncated
Limit_Unbounded(seq, n) == seq

\* .limit(n)
Limit(seq, n) == SubSeq(seq, 1, Min(n, Len(seq)))

\* the possible values of getRecentObservations
getRecentObservations(stationId, cutoff, outcome) ==
  IF outcome = "error" THEN {<<>>}
  ELSE {Limit(Expand(p), ObservationLimit) :
          p \in OrderedDesc(MatchingObservations(stationId, cutoff))}

-----------------------------------------------------------------------------
(* estimateWaitTime, lines 162-241: the estimate computed from the three   *)
(* values read; t is Date.now() when it is computed                        *)

\* mutant: every in_queue observation is a queue-report, with or without
\* a position
IsQueueObs_TypeOnly(obs) == obs.observation_type = "in_queue"

IsQueueObs(obs) == obs.observation_type = "in_queue" /\ Truthy(obs.queue_position)
IsSessionObs(obs) ==
  obs.observation_type = "done_charging" /\ Truthy(obs.session_duration_min)

queueObs(recentObs) == SelectSeq(recentObs, IsQueueObs)
sessionObs(recentObs) == SelectSeq(recentObs, IsSessionObs)

RECURSIVE SumQueuePosition(_, _)
\* reduce((sum, obs) => sum + (obs.queue_position || 0), 0) over the first k
SumQueuePosition(seq, k) ==
  IF k = 0 THEN 0
  ELSE SumQueuePosition(seq, k - 1) + OrElse(seq[k].queue_position, 0)

RECURSIVE SumSessionDuration(_, _)
SumSessionDuration(seq, k) ==
  IF k = 0 THEN 0
  ELSE SumSessionDuration(seq, k - 1) + OrElse(seq[k].session_duration_min, 0)

avgQueuePosition(recentObs) ==
  Rat(SumQueuePosition(queueObs(recentObs), Len(queueObs(recentObs))),
      Len(queueObs(recentObs)))

avgSessionDuration(recentObs) ==
  Rat(SumSessionDuration(sessionObs(recentObs), Len(sessionObs(recentObs))),
      Len(sessionObs(recentObs)))

\* sessionStats?.median_session_min || getIndustryDefault(stationMeta.maxPowerKw)
sessionTime(stationMeta, stats) ==
  IF ~IsNull(stats) /\ stats[1].median_session_min.n # 0
  THEN stats[1].median_session_min
  ELSE Int2Rat(getIndustryDefault(stationMeta.maxPowerKw))

\* mutant: a stall count of 0 is replaced by 1
stallsFactor_One(stationMeta) ==
  IF stationMeta.stallsTotal # 0 THEN stationMeta.stallsTotal ELSE 1

\* stationMeta.stallsTotal || 4
stallsFactor(stationMeta) ==
  IF stationMeta.stallsTotal # 0 THEN stationMeta.stallsTotal ELSE DefaultStalls

crowdEstimate(stationMeta, recentObs, stats) ==
  IF Len(recentObs) = 0 THEN NULL
  ELSE IF Len(queueObs(recentObs)) > 0
       THEN Some(RDiv(RMul(avgQueuePosition(recentObs), sessionTime(stationMeta, stats)),
                      Int2Rat(stallsFactor(stationMeta))))
  ELSE IF Len(sessionObs(recentObs)) > 0
       THEN Some(RMul(avgSessionDuration(recentObs), Rat(5, 10)))
  ELSE NULL

historicalEstimate(stats) ==
  IF IsNull(stats) THEN NULL ELSE Some(stats[1].median_session_min)

\* Math.floor(ageMillis / 60000)
AgeMinutes(t, at) == FloorDiv(t - at, MsPerMinute)

\* mutant: the older of the two ages is kept
freshnessMinutes_Oldest(recentObs, stats, t) ==
  LET afterCrowd == IF Len(recentObs) > 0
                    THEN AgeMinutes(t, recentObs[1].observed_at)
                    ELSE DefaultFreshnessMinutes
  IN  IF ~IsNull(stats) /\ AgeMinutes(t, stats[1].last_computed_at) > afterCrowd
      THEN AgeMinutes(t, stats[1].last_computed_at)
      ELSE afterCrowd

freshnessMinutes(recentObs, stats, t) ==
  LET afterCrowd == IF Len(recentObs) > 0
                    THEN AgeMinutes(t, recentObs[1].observed_at)
                    ELSE DefaultFreshnessMinutes
  IN  IF ~IsNull(stats) /\ AgeMinutes(t, stats[1].last_computed_at) < afterCrowd
      THEN AgeMinutes(t, stats[1].last_computed_at)
      ELSE afterCrowd

\* mutant: crowd and historical estimates are weighted equally
blendedWait_EqualWeights(stationMeta, recentObs, stats) ==
  LET c == crowdEstimate(stationMeta, recentObs, stats)
      h == historicalEstimate(stats)
  IN  IF ~IsNull(c) /\ ~IsNull(h)
      THEN RAdd(RMul(c[1], Rat(5, 10)), RMul(h[1], Rat(5, 10)))
      ELSE IF ~IsNull(c) THEN c[1]
      ELSE IF ~IsNull(h) THEN RMul(h[1], Rat(5, 10))
      ELSE RMul(Int2Rat(getIndustryDefault(stationMeta.maxPowerKw)), Rat(5, 10))

\* mutant: a historical estimate standing alone is taken undiscounted
blendedWait_HistoricalUndiscounted(stationMeta, recentObs, stats) ==
  LET c == crowdEstimate(stationMeta, recentObs, stats)
      h == historicalEstimate(stats)
  IN  IF ~IsNull(c) /\ ~IsNull(h)
      THEN RAdd(RMul(c[1], Rat(7, 10)), RMul(h[1], Rat(3, 10)))
      ELSE IF ~IsNull(c) THEN c[1]
      ELSE IF ~IsNull(h) THEN h[1]
      ELSE RMul(Int2Rat(getIndustryDefault(stationMeta.maxPowerKw)), Rat(5, 10))

\* mutant: the historical share is subtracted from the crowd share
blendedWait_Difference(stationMeta, recentObs, stats) ==
  LET c == crowdEstimate(stationMeta, recentObs, stats)
      h == historicalEstimate(stats)
  IN  IF ~IsNull(c) /\ ~IsNull(h)
      THEN RAdd(RMul(c[1], Rat(7, 10)), RMul(h[1], Rat(0 - 3, 10)))
      ELSE IF ~IsNull(c) THEN c[1]
      ELSE IF ~IsNull(h) THEN RMul(h[1], Rat(5, 10))
      ELSE RMul(Int2Rat(getIndustryDefault(stationMeta.maxPowerKw)), Rat(5, 10))

blendedWait(stationMeta, recentObs, stats) ==
  LET c == crowdEstimate(stationMeta, recentObs, stats)
      h == historicalEstimate(stats)
  IN  IF ~IsNull(c) /\ ~IsNull(h)
      THEN RAdd(RMul(c[1], Rat(7, 10)), RMul(h[1], Rat(3, 10)))
      ELSE IF ~IsNull(c) THEN c[1]
      ELSE IF ~IsNull(h) THEN RMul(h[1], Rat(5, 10))
      ELSE RMul(Int2Rat(getIndustryDefault(stationMeta.maxPowerKw)), Rat(5, 10))

\* mutant: the heuristic tag is never pushed
sources_NoHeuristic(stationMeta, recentObs, stats) ==
  (IF Len(recentObs) > 0 THEN <<"crowd_recent">> ELSE <<>>)
  \o (IF ~IsNull(stats) THEN <<"historical">> ELSE <<>>)

\* mutant: the heuristic tag is put in front of the list
sources_HeuristicFirst(stationMeta, recentObs, stats) ==
  (IF /\ IsNull(crowdEstimate(stationMeta, recentObs, stats))
      /\ IsNull(historicalEstimate(stats))
   THEN <<"heuristic">> ELSE <<>>)
  \o (IF Len(recentObs) > 0 THEN <<"crowd_recent">> ELSE <<>>)
  \o (IF ~IsNull(stats) THEN <<"historical">> ELSE <<>>)

\* mutant: crowd_recent is pushed only with a numeric crowd estimate
sources_TagAfterShape(stationMeta, recentObs, stats) ==
  (IF ~IsNull(crowdEstimate(stationMeta, recentObs, stats))
   THEN <<"crowd_recent">> ELSE <<>>)
  \o (IF ~IsNull(stats) THEN <<"historical">> ELSE <<>>)
  \o (IF /\ IsNull(crowdEstimate(stationMeta, recentObs, stats))
         /\ IsNull(historicalEstimate(stats))
      THEN <<"heuristic">> ELSE <<>>)

\* mutant: heuristic is pushed whenever there is no numeric crowd estimate
sources_HeuristicOnMissingCrowd(stationMeta, recentObs, stats) ==
  (IF Len(recentObs) > 0 THEN <<"crowd_recent">> ELSE <<>>)
  \o (IF ~IsNull(stats) THEN <<"historical">> ELSE <<>>)
  \o (IF IsNull(crowdEstimate(stationMeta, recentObs, stats))
      THEN <<"heuristic">> ELSE <<>>)

sources(stationMeta, recentObs, stats) ==
  (IF Len(recentObs) > 0 THEN <<"crowd_recent">> ELSE <<>>)
  \o (IF ~IsNull(stats) THEN <<"historical">> ELSE <<>>)
  \o (IF /\ IsNull(crowdEstimate(stationMeta, recentObs, stats))
         /\ IsNull(historicalEstimate(stats))
      THEN <<"heuristic">> ELSE <<>>)

waitMinutes(stationMeta, recentObs, stats) ==
  RCeil(RMul(blendedWait(stationMeta, recentObs, stats),
             getPopularityMultiplier(stationMeta.stallsTotal)))

NoDataEstimate(stationId, t) ==
  [stationId |-> stationId,
   etaWaitMinutes |-> NULL,
   confidence |-> Int2Rat(0),
   mode |-> EstimationMode.no_data,
   sourcesUsed |-> <<>>,
   computedAt |-> t]

\* calculateConfidence(sources, freshnessMinutes, dataPointsLast24h)
confidence(stationMeta, recentObs, stats, t) ==
  calculateConfidence(sources(stationMeta, recentObs, stats),
                      freshnessMinutes(recentObs, stats, t),
                      Len(recentObs))

FallbackEstimate(stationId, stationMeta, recentObs, stats, t) ==
  [stationId |-> stationId,
   etaWaitMinutes |-> Some(waitMinutes(stationMeta, recentObs, stats)),
   confidence |-> confidence(stationMeta, recentObs, stats, t),
   mode |-> EstimationMode.fallback,
   sourcesUsed |-> sources(stationMeta, recentObs, stats),
   computedAt |-> t]

-----------------------------------------------------------------------------
(* One estimateWaitTime call: a task stops at each await.  pc names the    *)
(* read the task is waiting for: "meta", "obs", "stats"; then "done" (the  *)
(* call has returned) and, in a batch, "stored".                           *)

NewTask(id) ==
  [id |-> id, pc |-> "meta",
   stationMeta |-> NULL, recentObs |-> <<>>, stats |-> NULL,
   cutoff |-> 0, dayOfWeek |-> 0, hourOfDay |-> 0,
   reads |-> <<>>, outcomes |-> <<>>, result |-> NULL]

\* the read has been issued and its outcome is known
Logged(task, table, outcome) ==
  [task EXCEPT !.reads = Append(@, table), !.outcomes = Append(@, outcome)]

\* mutant: the exception is thrown on to the caller
Caught_Rethrow(task) ==
  [task EXCEPT !.pc = "raised"]

\* catch (error) { ... return no_data }
Caught(task) ==
  [task EXCEPT !.pc = "done", !.result = Some(NoDataEstimate(task.id, now))]

\* mutant: no early return for a missing station, the defaults are used
AfterMeta_NoEarlyReturn(task, outcome) ==
  LET t == Logged(task, "stations", outcome)
      meta == getStationMetadata(task.id, outcome)
  IN  IF outcome = "throw" THEN Caught(t)
      ELSE [t EXCEPT !.pc = "obs",
                     !.stationMeta =
                        IF IsNull(meta)
                        THEN Some([id |-> task.id, stallsTotal |-> DefaultStalls,
                                   maxPowerKw |-> NULL])
                        ELSE meta,
                     !.cutoff = Cutoff(now, HoursBack)]

\* const stationMeta = await getStationMetadata(stationId);
\* if (!stationMeta) return no_data; then getRecentObservations is called
AfterMeta(task, outcome) ==
  LET t == Logged(task, "stations", outcome)
      meta == getStationMetadata(task.id, outcome)
  IN  IF outcome = "throw" THEN Caught(t)
      ELSE IF IsNull(meta)
           THEN [t EXCEPT !.pc = "done",
                          !.result = Some(NoDataEstimate(task.id, now))]
      ELSE [t EXCEPT !.pc = "obs", !.stationMeta = meta,
                     !.cutoff = Cutoff(now, HoursBack)]

ReadMeta(i) ==
  /\ i \in DOMAIN tasks
  /\ tasks[i].pc = "meta"
  /\ \E outcome \in Outcomes :
       tasks' = [tasks EXCEPT ![i] = AfterMeta(tasks[i], outcome)]
  /\ UNCHANGED <<repo, now, stationIds, estimates, batchPc, web>>

\* mutant: an exception of the observations read is taken for an empty list
AfterObs_SwallowThrow(task, outcome, data) ==
  LET t == Logged(task, "observations", outcome)
  IN  [t EXCEPT !.pc = "stats",
                !.recentObs = IF outcome = "throw" THEN <<>> ELSE data,
                !.dayOfWeek = getDay(now), !.hourOfDay = getHours(now)]

\* const recentObs = await getRecentObservations(stationId, 2);
\* then getSessionStats is called and reads the clock
AfterObs(task, outcome, data) ==
  LET t == Logged(task, "observations", outcome)
  IN  IF outcome = "throw" THEN Caught(t)
      ELSE [t EXCEPT !.pc = "stats", !.recentObs = data,
                     !.dayOfWeek = getDay(now), !.hourOfDay = getHours(now)]

\* mutant: the observations read are consumed, the table is left empty
ReadObs_Consume(i) ==
  /\ i \in DOMAIN tasks
  /\ tasks[i].pc = "obs"
  /\ \E outcome \in Outcomes :
       \E data \in getRecentObservations(tasks[i].id, tasks[i].cutoff, outcome) :
         tasks' = [tasks EXCEPT ![i] = AfterObs(tasks[i], outcome, data)]
  /\ observations' = EmptyBag
  /\ UNCHANGED <<stations, sessionStats, now, stationIds, estimates, batchPc, web>>

ReadObs(i) ==
  /\ i \in DOMAIN tasks
  /\ tasks[i].pc = "obs"
  /\ \E outcome \in Outcomes :
       \E data \in getRecentObservations(tasks[i].id, tasks[i].cutoff, outcome) :
         tasks' = [tasks EXCEPT ![i] = AfterObs(tasks[i], outcome, data)]
  /\ UNCHANGED <<repo, now, stationIds, estimates, batchPc, web>>

\* const sessionStats = await getSessionStats(stationId); and the rest of
\* the function up to its return
AfterStats(task, outcome) ==
  LET t == Logged(task, "session_stats_hourly", outcome)
      stats == getSessionStats(task.id, task.dayOfWeek, task.hourOfDay, outcome, now)
  IN  IF outcome = "throw" THEN Caught(t)
      ELSE [t EXCEPT !.pc = "done", !.stats = stats,
                     !.result = Some(FallbackEstimate(task.id, task.stationMeta[1],
                                                      task.recentObs, stats, now))]

ReadStats(i) ==
  /\ i \in DOMAIN tasks
  /\ tasks[i].pc = "stats"
  /\ \E outcome \in Outcomes :
       tasks' = [tasks EXCEPT ![i] = AfterStats(tasks[i], outcome)]
  /\ UNCHANGED <<repo, now, stationIds, estimates, batchPc, web>>

\* a caller (GET /api/stations/[id]) calls estimateWaitTime(id)
Call(id) ==
  /\ batchPc = "idle"
  /\ batchPc' = "single"
  /\ tasks' = <<NewTask(id)>>
  /\ UNCHANGED <<repo, now, stationIds, estimates, web>>

-----------------------------------------------------------------------------
(* estimateWaitTimeBatch                                                   *)

EmptyMap == [k \in {} |-> NULL]

\* new Map(); stationIds.map(async (id) => ...) starts every callback, each
\* running up to its first await
StartBatch(ids) ==
  /\ batchPc = "idle"
  /\ batchPc' = "running"
  /\ stationIds' = ids
  /\ tasks' = [i \in DOMAIN ids |-> NewTask(ids[i])]
  /\ estimates' = EmptyMap
  /\ UNCHANGED <<repo, now, web>>

\* mutant: storing a no_data estimate drops the entries stored before
MapSet_DropOnFailure(map, key, value) ==
  IF value.mode = EstimationMode.no_data
  THEN [k \in {key} |-> value]
  ELSE [k \in DOMAIN map \cup {key} |-> IF k = key THEN value ELSE map[k]]

MapSet(map, key, value) ==
  [k \in DOMAIN map \cup {key} |-> IF k = key THEN value ELSE map[k]]

\* estimates.set(id, estimate), when the callback's await resumes
Store(i) ==
  /\ batchPc = "running"
  /\ i \in DOMAIN tasks
  /\ tasks[i].pc = "done"
  /\ estimates' = MapSet(estimates, tasks[i].id, tasks[i].result[1])
  /\ tasks' = [tasks EXCEPT ![i].pc = "stored"]
  /\ UNCHANGED <<repo, now, stationIds, batchPc, web>>

\* mutant: the map is returned as soon as one callback has finished
BatchReturn_First ==
  /\ batchPc = "running"
  /\ \E i \in DOMAIN tasks : tasks[i].pc = "stored"
  /\ batchPc' = "returned"
  /\ UNCHANGED <<repo, now, tasks, stationIds, estimates, web>>

\* Promise.all resolves once every callback has finished; return estimates
BatchReturn ==
  /\ batchPc = "running"
  /\ \A i \in DOMAIN tasks : tasks[i].pc = "stored"
  /\ batchPc' = "returned"
  /\ UNCHANGED <<repo, now, tasks, stationIds, estimates, web>>

-----------------------------------------------------------------------------
(* The clock                                                               *)

\* the clock when the model starts: Sunday 4 January 1970, 10:30 UTC
Now0 == 3 * MsPerDay + 10 * MsPerHour + 30 * MsPerMinute
\* the clock advances in steps of ClockStepMs, at most MaxTicks times
ClockStepMs == 30000
MaxTicks == 1

\* Time that passes before a call has made its first read of the clock only
\* shifts every age; the clock is moved while a call is between reads.
Tick ==
  /\ \E i \in DOMAIN tasks : tasks[i].pc \in {"obs", "stats"}
  /\ now < Now0 + MaxTicks * ClockStepMs
  /\ now' = now + ClockStepMs
  /\ UNCHANGED <<repo, tasks, stationIds, estimates, batchPc, web>>

-----------------------------------------------------------------------------
(* Repository contents the model starts from                               *)

\* station "s1" exists, station "s2" does not
KnownId == "s1"
UnknownId == "s2"
StationIds == {KnownId, UnknownId}

\* at most MaxKinds distinct observation rows in the table
MaxKinds == 2

ObsRow(type, qp, dur, at) ==
  [station_id |-> KnownId, observation_type |-> type, queue_position |-> qp,
   session_duration_min |-> dur, observed_at |-> at]

StatsRow(day, hour, median, at) ==
  [station_id |-> KnownId, day_of_week |-> day, hour_of_day |-> hour,
   median_session_min |-> median, last_computed_at |-> at]

\* the bags of at most MaxKinds rows of a set, each row in one of the counts
BagsOver(rows, counts) ==
  UNION {[kinds -> counts] : kinds \in {k \in SUBSET rows : Cardinality(k) <= MaxKinds}}

StationRow(st, pw) == [id |-> KnownId, stalls_total |-> st, max_power_kw |-> pw]

\* a second station, which has rows of its own and is never asked for
OtherId == "s3"
OtherStation == [id |-> OtherId, stalls_total |-> Some(8), max_power_kw |-> Some(150)]
OtherObs ==
  [station_id |-> OtherId, observation_type |-> "in_queue", queue_position |-> Some(2),
   session_duration_min |-> NULL, observed_at |-> Now0 - 5 * MsPerMinute]

\* rows of session_stats_hourly that are not the row of station s1 for
\* (day, hour): the hour before, the day before, and the other station
OtherSlots(day, hour) ==
  {[station_id |-> KnownId, day_of_week |-> day, hour_of_day |-> (hour + 23) % 24,
    median_session_min |-> Some(Int2Rat(45)), last_computed_at |-> Some(Now0 - 5 * MsPerMinute)],
   [station_id |-> KnownId, day_of_week |-> (day + 6) % 7, hour_of_day |-> hour,
    median_session_min |-> Some(Int2Rat(45)), last_computed_at |-> Some(Now0 - 5 * MsPerMinute)],
   [station_id |-> OtherId, day_of_week |-> day, hour_of_day |-> hour,
    median_session_min |-> Some(Int2Rat(45)), last_computed_at |-> Some(Now0 - 5 * MsPerMinute)]}

StallsValues == {NULL, Some(0), Some(4), Some(5), Some(8), Some(9)}
PowerValues == {NULL, Some(0), Some(49), Some(50), Some(150)}

\* slice 1: stations of every size and power class, without observations
\* of their own; a second station and other slots of the statistics
InitHeuristic ==
  /\ stations \in {{StationRow(st, pw), OtherStation} :
                     st \in StallsValues, pw \in PowerValues}
  /\ observations \in {EmptyBag, SetToBag({OtherObs})}
  /\ sessionStats \in
       {{}, OtherSlots(getDay(Now0), getHours(Now0))}
       \cup {{StatsRow(getDay(Now0), getHours(Now0), m, Some(Now0 - 90 * MsPerMinute))} :
               m \in {NULL, Some(Int2Rat(0)), Some(Int2Rat(30))}}
       \cup {{StatsRow(getDay(Now0), getHours(Now0), Some(Int2Rat(30)),
                       Some(Now0 - 90 * MsPerMinute))}
             \cup OtherSlots(getDay(Now0), getHours(Now0))}

\* slice 2: the inputs of the wait computation vary
WaitShapes ==
  {ObsRow("in_queue", Some(2), NULL, Now0 - 5 * MsPerMinute),
   ObsRow("in_queue", Some(3), NULL, Now0 - 5 * MsPerMinute),
   ObsRow("in_queue", Some(0), NULL, Now0 - 6 * MsPerMinute),
   ObsRow("in_queue", NULL, NULL, Now0 - 7 * MsPerMinute),
   ObsRow("done_charging", NULL, Some(30), Now0 - 8 * MsPerMinute),
   ObsRow("done_charging", NULL, NULL, Now0 - 9 * MsPerMinute),
   ObsRow("available", NULL, NULL, Now0 - 10 * MsPerMinute),
   ObsRow("done_charging", NULL, Some(0), Now0 - 11 * MsPerMinute)}

InitWait ==
  /\ stations \in {{StationRow(st, Some(150))} : st \in StallsValues}
                  \cup {{StationRow(Some(4), pw)} : pw \in PowerValues}
  /\ observations \in BagsOver(WaitShapes, {1, 2})
  /\ sessionStats \in {{}} \cup
       {{StatsRow(getDay(Now0), getHours(Now0), m, Some(Now0 - 90 * MsPerMinute))} :
          m \in {NULL, Some(Int2Rat(30))}}

\* slice 3: the inputs of the confidence computation vary
ConfAges ==
  {0 - 30 * MsPerMinute, 0, 23 * MsPerMinute + 30000, 24 * MsPerMinute,
   120 * MsPerMinute, 121 * MsPerMinute}

ConfShapes == {ObsRow("available", NULL, NULL, Now0 - age) : age \in ConfAges}

InitConf ==
  /\ stations = {StationRow(Some(4), Some(150))}
  /\ observations \in BagsOver(ConfShapes, {1, 12, 20, 51})
  /\ sessionStats \in {{}} \cup
       {{StatsRow(getDay(Now0), getHours(Now0), Some(Int2Rat(30)), at)} :
          at \in {NULL, Some(Now0 - 5 * MsPerMinute), Some(Now0 - 90 * MsPerMinute)}}

InitIdle ==
  /\ now = Now0
  /\ tasks = <<>>
  /\ stationIds = <<>>
  /\ estimates = EmptyMap
  /\ batchPc = "idle"
  /\ users = {}
  /\ alerts = {}
  /\ requests = <<>>

Init == InitIdle /\ (InitHeuristic \/ InitWait \/ InitConf)

Next ==
  \/ \E id \in StationIds : Call(id)
  \/ \E i \in DOMAIN tasks : ReadMeta(i)
  \/ \E i \in DOMAIN tasks : ReadObs(i)
  \/ \E i \in DOMAIN tasks : ReadStats(i)
  \/ Tick

Spec == Init /\ [][Next]_vars

\* estimateWaitTimeBatch is called with at most MaxBatch identifiers
MaxBatch == 2

BatchInputs == UNION {[1..n -> StationIds] : n \in 0..MaxBatch}

\* a small repository under a batch; the clock stands still in a batch, whose
\* steps are the interleavings of its estimations
InitBatch ==
  /\ stations = {StationRow(Some(4), Some(150))}
  /\ observations \in BagsOver({ObsRow("in_queue", Some(2), NULL, Now0 - 5 * MsPerMinute)}, {1})
  /\ sessionStats \in {{}} \cup
       {{StatsRow(getDay(Now0), getHours(Now0), Some(Int2Rat(30)),
                  Some(Now0 - 90 * MsPerMinute))}}

BatchStep ==
  \/ \E ids \in BatchInputs : StartBatch(ids)
  \/ \E i \in DOMAIN tasks : ReadMeta(i)
  \/ \E i \in DOMAIN tasks : ReadObs(i)
  \/ \E i \in DOMAIN tasks : ReadStats(i)
  \/ \E i \in DOMAIN tasks : Store(i)
  \/ BatchReturn

BatchInit == InitIdle /\ InitBatch

BatchSpec == BatchInit /\ [][BatchStep]_vars

-----------------------------------------------------------------------------
(* POST /api/observations: a handler stops at each await; pc names the     *)
(* answer it is waiting for, "station" or "insert", then "done" with the   *)
(* HTTP status of the response.                                            *)

\* z.enum of submitSchema.observationType
SubmittableTypes == {"available", "short_wait", "long_wait", "full"}

\* mutant: the schema admits every observation type
submitSchema_AnyType(body) ==
  IsNull(body.queuePosition) \/ body.queuePosition[1] \in 0..50

\* submitSchema.safeParse(body).success
submitSchema(body) ==
  /\ body.observationType \in SubmittableTypes
  /\ IsNull(body.queuePosition) \/ body.queuePosition[1] \in 0..50

NewRequest(kind, pc, data) ==
  [kind |-> kind, pc |-> pc, data |-> Some(data), user |-> NULL, status |-> 0]

\* return NextResponse.json(..., { status })
Respond(req, status) ==
  [req EXCEPT !.pc = "done", !.status = status, !.data = NULL, !.user = NULL]

\* the row of the insert; observed_at is the column default NOW()
NewObservation(data) ==
  [station_id |-> data.stationId,
   observation_type |-> data.observationType,
   queue_position |-> IF Truthy(data.queuePosition) THEN data.queuePosition ELSE NULL,
   session_duration_min |-> NULL,
   observed_at |-> now]

\* at most MaxPosts requests are made
MaxPosts == 2

\* the request arrives; its body is parsed and the station query sent
PostObservation(body) ==
  /\ Len(requests) < MaxPosts
  /\ requests' = Append(requests,
                        IF submitSchema(body)
                        THEN NewRequest("observation", "station", body)
                        ELSE Respond(NewRequest("observation", "body", body), 400))
  /\ UNCHANGED <<repo, now, tasks, stationIds, estimates, batchPc, users, alerts>>

\* const { data: station } = await supabase.from('stations')...single()
ObservationStation(i) ==
  /\ i \in DOMAIN requests
  /\ requests[i].kind = "observation"
  /\ requests[i].pc = "station"
  /\ \E outcome \in Outcomes :
       LET resp == IF outcome = "error" THEN Failed
                   ELSE single({r \in stations : r.id = requests[i].data[1].stationId})
       IN  requests' = [requests EXCEPT ![i] =
                          IF outcome = "throw" THEN Respond(@, 500)
                          ELSE IF IsNull(resp.data) THEN Respond(@, 404)
                          ELSE [@ EXCEPT !.pc = "insert"]]
  /\ UNCHANGED <<repo, now, tasks, stationIds, estimates, batchPc, users, alerts>>

\* const { data: newObs, error } = await supabase.from('observations').insert(...)
ObservationInsert(i) ==
  /\ i \in DOMAIN requests
  /\ requests[i].kind = "observation"
  /\ requests[i].pc = "insert"
  /\ \E outcome \in Outcomes :
       /\ observations' =
            IF outcome = "ok"
            THEN observations (+) SetToBag({NewObservation(requests[i].data[1])})
            ELSE observations
       /\ requests' = [requests EXCEPT ![i] =
                         Respond(@, IF outcome = "ok" THEN 200 ELSE 500)]
  /\ UNCHANGED <<stations, sessionStats, now, tasks, stationIds, estimates, batchPc,
                 users, alerts>>

\* the request bodies tried: every type of the schema, positions null, 0
\* and 2, a type outside the schema, and a station that does not exist
ObservationBody(id, type, qp) ==
  [stationId |-> id, observationType |-> type, queuePosition |-> qp]

PostBodies ==
  {ObservationBody(KnownId, "available", NULL),
   ObservationBody(KnownId, "short_wait", Some(0)),
   ObservationBody(KnownId, "long_wait", Some(2)),
   ObservationBody(KnownId, "full", Some(2)),
   ObservationBody(KnownId, "in_queue", Some(2)),
   ObservationBody(UnknownId, "available", NULL)}

\* a station without observations, with or without a record for the hour
InitPosts ==
  /\ stations = {StationRow(Some(4), Some(150))}
  /\ observations = EmptyBag
  /\ sessionStats \in {{}} \cup
       {{StatsRow(getDay(Now0), getHours(Now0), Some(Int2Rat(30)),
                  Some(Now0 - 90 * MsPerMinute))}}

ObsInit == InitIdle /\ InitPosts

ObsStep ==
  \/ \E body \in PostBodies : PostObservation(body)
  \/ \E i \in DOMAIN requests : ObservationStation(i)
  \/ \E i \in DOMAIN requests : ObservationInsert(i)
  \/ \E id \in StationIds : Call(id)
  \/ \E i \in DOMAIN tasks : ReadMeta(i)
  \/ \E i \in DOMAIN tasks : ReadObs(i)
  \/ \E i \in DOMAIN tasks : ReadStats(i)

ObsSpec == ObsInit /\ [][ObsStep]_vars

-----------------------------------------------------------------------------
(* POST /api/alerts: a handler stops at each query; pc names the answer it *)
(* is waiting for: "user", "station", "existing", "insert", then "done".   *)
(* A drizzle query either answers or throws.                               *)

QueryOutcomes == {"ok", "throw"}

\* createAlertSchema.safeParse(body).success; station ids stand for uuids
\* and conditionType is the literal stalls_available in every body
createAlertSchema(body) == body.conditionValue \in 1..50

ALERT_TTL_MS == 2 * 60 * MsPerMinute

\* at most MaxAlertPosts requests are made
MaxAlertPosts == 2

\* the request arrives; without the X-Device-Id header it is answered 401,
\* else the user query is sent
PostAlert(deviceId, body) ==
  /\ Len(requests) < MaxAlertPosts
  /\ requests' = Append(requests,
                        LET req == NewRequest("alert", "user",
                                              [deviceId |-> deviceId, body |-> body])
                        IN  IF IsNull(deviceId) THEN Respond(req, 401) ELSE req)
  /\ UNCHANGED <<repo, now, tasks, stationIds, estimates, batchPc, users, alerts>>

\* userResult = await db.select().from(users)...; then the body is parsed
\* (request.json() reads the request only) and the station query is sent
AlertUser(i) ==
  /\ i \in DOMAIN requests
  /\ requests[i].kind = "alert"
  /\ requests[i].pc = "user"
  /\ \E outcome \in QueryOutcomes :
       LET data == requests[i].data[1]
           userResult == {u \in users : u.deviceId = data.deviceId[1]}
       IN  requests' = [requests EXCEPT ![i] =
                          IF outcome = "throw" THEN Respond(@, 500)
                          ELSE IF userResult = {} THEN Respond(@, 401)
                          ELSE IF ~createAlertSchema(data.body) THEN Respond(@, 400)
                          ELSE [@ EXCEPT !.pc = "station",
                                         !.user = Some((CHOOSE u \in userResult : TRUE).id)]]
  /\ UNCHANGED <<repo, now, tasks, stationIds, estimates, batchPc, users, alerts>>

\* stationResult = await db.select().from(stations)...
AlertStation(i) ==
  /\ i \in DOMAIN requests
  /\ requests[i].kind = "alert"
  /\ requests[i].pc = "station"
  /\ \E outcome \in QueryOutcomes :
       LET stationResult == {r \in stations : r.id = requests[i].data[1].body.stationId}
       IN  requests' = [requests EXCEPT ![i] =
                          IF outcome = "throw" THEN Respond(@, 500)
                          ELSE IF stationResult = {} THEN Respond(@, 404)
                          ELSE [@ EXCEPT !.pc = "existing"]]
  /\ UNCHANGED <<repo, now, tasks, stationIds, estimates, batchPc, users, alerts>>

\* the active alerts of a user for a station
ActiveAlerts(userId, stationId) ==
  {a \in alerts : a.userId = userId /\ a.stationId = stationId /\ a.status = "active"}

\* existingAlert = await db.select().from(alerts)...
AlertExisting(i) ==
  /\ i \in DOMAIN requests
  /\ requests[i].kind = "alert"
  /\ requests[i].pc = "existing"
  /\ \E outcome \in QueryOutcomes :
       LET existingAlert == ActiveAlerts(requests[i].user[1],
                                         requests[i].data[1].body.stationId)
       IN  requests' = [requests EXCEPT ![i] =
                          IF outcome = "throw" THEN Respond(@, 500)
                          ELSE IF existingAlert # {} THEN Respond(@, 409)
                          ELSE [@ EXCEPT !.pc = "insert"]]
  /\ UNCHANGED <<repo, now, tasks, stationIds, estimates, batchPc, users, alerts>>

\* the row of the insert; the table has a primary key on id and no unique
\* index over (user_id, station_id, status)
NewAlert(userId, body) ==
  [id |-> Cardinality(alerts) + 1,
   userId |-> userId,
   stationId |-> body.stationId,
   conditionValue |-> body.conditionValue,
   status |-> "active",
   expiresAt |-> now + ALERT_TTL_MS]

\* const [newAlert] = await db.insert(alerts).values(...).returning()
AlertInsert(i) ==
  /\ i \in DOMAIN requests
  /\ requests[i].kind = "alert"
  /\ requests[i].pc = "insert"
  /\ \E outcome \in QueryOutcomes :
       /\ alerts' =
            IF outcome = "ok"
            THEN alerts \cup {NewAlert(requests[i].user[1], requests[i].data[1].body)}
            ELSE alerts
       /\ requests' = [requests EXCEPT ![i] =
                         Respond(@, IF outcome = "ok" THEN 200 ELSE 500)]
  /\ UNCHANGED <<repo, now, tasks, stationIds, estimates, batchPc, users>>

\* a registered device, and one that is not
UserRow == [id |-> "u1", deviceId |-> "d1"]
DeviceIds == {NULL, Some("d1"), Some("d2")}

\* valid, with a condition value outside 1..50, and for a missing station
AlertBody(id, value) == [stationId |-> id, conditionValue |-> value]
AlertBodies == {AlertBody(KnownId, 1), AlertBody(KnownId, 0), AlertBody(UnknownId, 1)}

\* an alert the user already has for the station
OldAlert(status) ==
  [id |-> 1, userId |-> "u1", stationId |-> KnownId, conditionValue |-> 2,
   status |-> status, expiresAt |-> Now0 + 60 * MsPerMinute]

\* the user has no alert, an active one, or one that has triggered
AlertInit ==
  /\ stations = {StationRow(Some(4), Some(150))}
  /\ observations = EmptyBag
  /\ sessionStats = {}
  /\ now = Now0
  /\ tasks = <<>>
  /\ stationIds = <<>>
  /\ estimates = EmptyMap
  /\ batchPc = "idle"
  /\ users = {UserRow}
  /\ alerts \in {{}, {OldAlert("active")}, {OldAlert("triggered")}}
  /\ requests = <<>>

AlertStep ==
  \/ \E deviceId \in DeviceIds, body \in AlertBodies : PostAlert(deviceId, body)
  \/ \E i \in DOMAIN requests : AlertUser(i)
  \/ \E i \in DOMAIN requests : AlertStation(i)
  \/ \E i \in DOMAIN requests : AlertExisting(i)
  \/ \E i \in DOMAIN requests : AlertInsert(i)

AlertSpec == AlertInit /\ [][AlertStep]_vars

-----------------------------------------------------------------------------
(* Properties                                                              *)

Returned(task) == task.pc \in {"done", "stored"}
Waiting(task) == task.pc \in {"meta", "obs", "stats"}
IsNoData(e) == e.mode = EstimationMode.no_data

\* an Estimate as declared in the types module
WellFormed(e, id) ==
  /\ DOMAIN e = {"stationId", "etaWaitMinutes", "confidence", "mode",
                 "sourcesUsed", "computedAt"}
  /\ e.stationId = id
  /\ e.etaWaitMinutes = NULL \/ (Len(e.etaWaitMinutes) = 1 /\ e.etaWaitMinutes[1] \in Int)
  /\ e.confidence.d > 0 /\ e.confidence.n \in Int
  /\ e.mode \in {EstimationMode[m] : m \in DOMAIN EstimationMode}
  /\ \A k \in DOMAIN e.sourcesUsed : e.sourcesUsed[k] \in ConfidenceSource
  /\ e.computedAt \in Int

\* C1: estimateWaitTime never raises and always returns a well-formed
\* Estimate: a call is either waiting for the next of its at most three
\* reads, or it has returned an Estimate, whatever the reads' outcomes were.
C1_AlwaysReturnsEstimate ==
  \A i \in DOMAIN tasks :
    /\ Waiting(tasks[i]) \/ Returned(tasks[i])
    /\ Waiting(tasks[i]) =>
         /\ tasks[i].result = NULL
         /\ Len(tasks[i].reads) < 3
         /\ \A k \in DOMAIN tasks[i].outcomes : tasks[i].outcomes[k] # "throw"
    /\ Returned(tasks[i]) =>
         /\ tasks[i].result # NULL
         /\ Len(tasks[i].reads) \in 1..3
         /\ WellFormed(tasks[i].result[1], tasks[i].id)

\* a call has returned although one of its reads threw
C1_Witness ==
  \E i \in DOMAIN tasks :
    /\ Returned(tasks[i])
    /\ Includes(tasks[i].outcomes, "throw")
    /\ tasks[i].result # NULL

\* C2: in every Estimate returned, mode = no_data, etaWaitMinutes = null,
\* confidence = 0 and sourcesUsed = [] hold together or not at all.
C2_NoDataInvariant ==
  \A i \in DOMAIN tasks :
    Returned(tasks[i]) =>
      LET e == tasks[i].result[1]
      IN  /\ IsNoData(e) <=> (e.etaWaitMinutes = NULL)
          /\ IsNoData(e) <=> (e.confidence.n = 0)
          /\ IsNoData(e) <=> (e.sourcesUsed = <<>>)

\* a fallback estimate built on the industry default alone
C2_Witness ==
  \E i \in DOMAIN tasks :
    /\ Returned(tasks[i])
    /\ tasks[i].result[1].mode = EstimationMode.fallback
    /\ tasks[i].result[1].sourcesUsed = <<"heuristic">>
    /\ tasks[i].result[1].etaWaitMinutes # NULL

\* C3: every Estimate that is not no_data has 0.3 <= confidence <= 0.6.
C3_ConfidenceBounds ==
  \A i \in DOMAIN tasks :
    (Returned(tasks[i]) /\ ~IsNoData(tasks[i].result[1])) =>
      /\ RLe(Rat(3, 10), tasks[i].result[1].confidence)
      /\ RLe(tasks[i].result[1].confidence, Rat(6, 10))

\* an estimate whose unclamped confidence is above 0.6 (the newest of 20 or
\* more observations carries a timestamp ahead of the clock)
C3_Witness ==
  \E i \in DOMAIN tasks :
    /\ Returned(tasks[i])
    /\ ~IsNoData(tasks[i].result[1])
    /\ Len(tasks[i].recentObs) >= SignalSaturation
    /\ RLt(Rat(6, 10),
           rawConfidence(tasks[i].result[1].sourcesUsed,
                         freshnessMinutes(tasks[i].recentObs, tasks[i].stats,
                                          tasks[i].result[1].computedAt),
                         Len(tasks[i].recentObs)))

Range(seq) == {seq[i] : i \in DOMAIN seq}

\* C4: estimateWaitTimeBatch returns a mapping whose keys are exactly the
\* identifiers given, unknown identifiers mapped to no_data, and returns it
\* only after every per-station estimation has stored its result; no other
\* key is ever in the mapping.
C4_BatchCompleteness ==
  /\ DOMAIN estimates \subseteq Range(stationIds)
  /\ batchPc = "returned" =>
       /\ DOMAIN estimates = Range(stationIds)
       /\ \A i \in DOMAIN tasks : tasks[i].pc = "stored"
       /\ stationIds = <<>> => estimates = EmptyMap
       /\ UnknownId \in Range(stationIds) => IsNoData(estimates[UnknownId])

\* a batch of at least two identifiers, an unknown one among them, has returned
C4_Witness ==
  /\ batchPc = "returned"
  /\ Len(stationIds) >= 2
  /\ UnknownId \in Range(stationIds)
  /\ DOMAIN estimates = Range(stationIds)

\* the Estimate a stand-alone estimateWaitTime call gives for the outcomes
\* and the values of the reads of this task
StandAlone(task) ==
  IF \E k \in DOMAIN task.outcomes : task.outcomes[k] = "throw"
  THEN NoDataEstimate(task.id, task.result[1].computedAt)
  ELSE IF IsNull(getStationMetadata(task.id, task.outcomes[1]))
       THEN NoDataEstimate(task.id, task.result[1].computedAt)
  ELSE FallbackEstimate(task.id,
                        getStationMetadata(task.id, task.outcomes[1])[1],
                        task.recentObs,
                        getSessionStats(task.id, task.dayOfWeek, task.hourOfDay,
                                        task.outcomes[3], task.result[1].computedAt),
                        task.result[1].computedAt)

\* C5: in a batch, the Estimate stored for an identifier is the one a
\* stand-alone call returns, whatever happened to the estimations of the
\* other identifiers, and no estimation of the batch ends in a rejection.
C5_BatchIndependence ==
  /\ \A i \in DOMAIN tasks : Waiting(tasks[i]) \/ Returned(tasks[i])
  /\ \A i \in DOMAIN tasks :
       Returned(tasks[i]) => tasks[i].result[1] = StandAlone(tasks[i])
  /\ \A i \in DOMAIN tasks :
       tasks[i].pc = "stored" =>
         /\ tasks[i].id \in DOMAIN estimates
         /\ \E j \in DOMAIN tasks :
              /\ tasks[j].pc = "stored"
              /\ tasks[j].id = tasks[i].id
              /\ estimates[tasks[i].id] = tasks[j].result[1]

\* the batch has returned; the estimation of one identifier failed on a
\* thrown read and was stored after the fallback estimate of another, which
\* is still in the mapping
C5_Witness ==
  /\ batchPc = "returned"
  /\ \E i, j \in DOMAIN tasks :
       /\ tasks[i].id # tasks[j].id
       /\ Includes(tasks[i].outcomes, "throw")
       /\ tasks[j].result[1].mode = EstimationMode.fallback
       /\ estimates[tasks[j].id] = tasks[j].result[1]
       /\ IsNoData(estimates[tasks[i].id])

NoDataFields(e) ==
  /\ e.mode = EstimationMode.no_data
  /\ e.etaWaitMinutes = NULL
  /\ e.confidence = Int2Rat(0)
  /\ e.sourcesUsed = <<>>

ReadOrder == <<"stations", "observations", "session_stats_hourly">>

\* C7: the reads are issued in the order metadata, observations, stats; a
\* call whose metadata read finds no station returns no_data at once
\* and issues no other read.
C7_MissingStationReturnsAtOnce ==
  \A i \in DOMAIN tasks :
    /\ Len(tasks[i].reads) <= 3
    /\ tasks[i].reads = SubSeq(ReadOrder, 1, Len(tasks[i].reads))
    /\ (/\ Returned(tasks[i])
        /\ \/ {r \in stations : r.id = tasks[i].id} = {}
           \/ tasks[i].outcomes[1] = "error")
       => /\ tasks[i].reads = <<"stations">>
          /\ NoDataFields(tasks[i].result[1])

\* a call for an identifier that is in no row has returned after one
\* successful query
C7_Witness ==
  \E i \in DOMAIN tasks :
    /\ Returned(tasks[i])
    /\ tasks[i].id = UnknownId
    /\ tasks[i].outcomes = <<"ok">>
    /\ tasks[i].reads = <<"stations">>

\* the call read all three tables and computed a fallback estimate
Computed(task) ==
  /\ Returned(task)
  /\ Len(task.outcomes) = 3
  /\ task.outcomes[3] # "throw"

\* the newest observation of the list moved to the age of a whole minutes
WithNewestAged(recentObs, t, a) ==
  [recentObs EXCEPT ![1].observed_at = t - a * MsPerMinute]

\* the confidence of the estimate, had the newest observation been a minutes
\* old when the estimate was computed; the source tags and the number of
\* observations do not depend on observed_at and are those of the estimate
ConfidenceAtAge(task, a) ==
  calculateConfidence(task.result[1].sourcesUsed,
                      freshnessMinutes(WithNewestAged(task.recentObs,
                                                      task.result[1].computedAt, a),
                                       task.stats, task.result[1].computedAt),
                      Len(task.recentObs))

\* every other observation is at least an hour old, so that the first one
\* stays the most recent at every age from 0 to 60 minutes
NewestCanAge(task) ==
  /\ Computed(task)
  /\ Len(task.recentObs) > 0
  /\ Len(task.recentObs) > 1 =>
       AgeMinutes(task.result[1].computedAt, task.recentObs[2].observed_at) >= 60

\* C8: all other inputs fixed, the confidence does not increase when the
\* age of the most recent observation grows from 0 to 60 minutes (stated
\* minute by minute; <= being transitive, this is the claim for every pair
\* of ages a1 <= a2 in 0..60).
C8_FreshnessMonotone ==
  \A i \in DOMAIN tasks :
    NewestCanAge(tasks[i]) =>
      LET a0 == AgeMinutes(tasks[i].result[1].computedAt,
                           tasks[i].recentObs[1].observed_at)
      IN  /\ \A a \in 0..59 :
               RLe(ConfidenceAtAge(tasks[i], a + 1), ConfidenceAtAge(tasks[i], a))
          /\ a0 \in 0..60 =>
               tasks[i].result[1].confidence = ConfidenceAtAge(tasks[i], a0)

\* an estimate over 20 or more observations whose confidence is 0.5 with a
\* newest observation of this minute and 0.3 with one an hour old
C8_Witness ==
  \E i \in DOMAIN tasks :
    /\ NewestCanAge(tasks[i])
    /\ Len(tasks[i].recentObs) >= SignalSaturation
    /\ AgeMinutes(tasks[i].result[1].computedAt, tasks[i].recentObs[1].observed_at) = 0
    /\ tasks[i].result[1].confidence = Rat(5, 10)
    /\ ConfidenceAtAge(tasks[i], 60) = Rat(3, 10)

\* C9: an existing station without recent observations and without a
\* historical record gets mode fallback, sourcesUsed = [heuristic],
\* confidence 0.3 and ceil(0.5 * D * popularityMultiplier) minutes, D = 120
\* for maxPowerKw null or below 50 and D = 25 from 50 on; the heuristic tag
\* is there exactly when there is neither a numeric crowd estimate nor a
\* historical estimate.
C9_HeuristicOnly ==
  \A i \in DOMAIN tasks :
    Computed(tasks[i]) =>
      LET e == tasks[i].result[1]
          meta == tasks[i].stationMeta[1]
          D == IF IsNull(meta.maxPowerKw) \/ meta.maxPowerKw[1] < 50 THEN 120 ELSE 25
      IN  /\ (tasks[i].recentObs = <<>> /\ tasks[i].stats = NULL) =>
                /\ e.mode = EstimationMode.fallback
                /\ e.sourcesUsed = <<"heuristic">>
                /\ e.confidence = Rat(3, 10)
                /\ e.etaWaitMinutes =
                     Some(RCeil(RMul(Rat(D, 2), getPopularityMultiplier(meta.stallsTotal))))
          /\ Includes(e.sourcesUsed, "heuristic") <=>
               /\ IsNull(crowdEstimate(meta, tasks[i].recentObs, tasks[i].stats))
               /\ IsNull(historicalEstimate(tasks[i].stats))

\* a station of 9 stalls and unknown power, no observation, no record:
\* ceil(0.5 * 120 * 1.2) = 72 minutes
C9_Witness ==
  \E i \in DOMAIN tasks :
    /\ Computed(tasks[i])
    /\ tasks[i].recentObs = <<>> /\ tasks[i].stats = NULL
    /\ tasks[i].stationMeta[1].stallsTotal = 9
    /\ IsNull(tasks[i].stationMeta[1].maxPowerKw)
    /\ tasks[i].result[1].etaWaitMinutes = Some(72)
    /\ tasks[i].result[1].sourcesUsed = <<"heuristic">>

\* a queue-report: an in_queue observation that has a queue position
IsQueueReport(obs) == obs.observation_type = "in_queue" /\ ~IsNull(obs.queue_position)

RECURSIVE SumPositions(_, _)
SumPositions(seq, k) ==
  IF k = 0 THEN 0 ELSE SumPositions(seq, k - 1) + seq[k].queue_position[1]

\* the row of session_stats_hourly the call read has a median
MedianAvailable(task) ==
  /\ task.stats # NULL
  /\ \E r \in sessionStats :
       /\ r.station_id = task.id /\ r.day_of_week = task.dayOfWeek
       /\ r.hour_of_day = task.hourOfDay /\ ~IsNull(r.median_session_min)

\* C10: with at least one queue-report among the recent observations,
\* crowdEstimate = avg(queuePosition over the queue-reports) * sessionTime /
\* stallsTotal, sessionTime being the historical median if there is one and
\* else 25 (DC fast) or 120 (Level 2); 4 stalls, 150 kW, one in_queue
\* observation of position 2 and no historical record give crowdEstimate
\* 12.5, 10 minutes and sourcesUsed = [crowd_recent].
C10_QueueCrowdEstimate ==
  \A i \in DOMAIN tasks :
    (Computed(tasks[i]) /\ tasks[i].stationMeta[1].stallsTotal >= 1) =>
      LET meta == tasks[i].stationMeta[1]
          reports == SelectSeq(tasks[i].recentObs, IsQueueReport)
          avg == Rat(SumPositions(reports, Len(reports)), Len(reports))
          D == IF IsNull(meta.maxPowerKw) \/ meta.maxPowerKw[1] < 50 THEN 120 ELSE 25
          time == IF MedianAvailable(tasks[i])
                  THEN tasks[i].stats[1].median_session_min ELSE Int2Rat(D)
          crowd == crowdEstimate(meta, tasks[i].recentObs, tasks[i].stats)
      IN  /\ Len(reports) > 0 =>
                crowd = Some(RDiv(RMul(avg, time), Int2Rat(meta.stallsTotal)))
          /\ (/\ meta.stallsTotal = 4 /\ meta.maxPowerKw = Some(150)
              /\ Len(tasks[i].recentObs) = 1 /\ Len(reports) = 1
              /\ reports[1].queue_position = Some(2)
              /\ tasks[i].stats = NULL)
             => /\ crowd = Some(Rat(25, 2))
                /\ tasks[i].result[1].etaWaitMinutes = Some(10)
                /\ tasks[i].result[1].sourcesUsed = <<"crowd_recent">>

\* the Scenario C inputs: 4 stalls, 150 kW, one recent in_queue observation
\* of position 2, and a historical record of median 30 for the current hour
ScenarioC(task) ==
  /\ Computed(task)
  /\ task.stationMeta[1].stallsTotal = 4
  /\ task.stationMeta[1].maxPowerKw = Some(150)
  /\ Len(task.recentObs) = 1
  /\ task.recentObs[1].observation_type = "in_queue"
  /\ task.recentObs[1].queue_position = Some(2)
  /\ task.stats # NULL
  /\ task.stats[1].median_session_min = Int2Rat(30)

\* the blend of step 6 for the two cases with a numeric crowd estimate,
\* as the minutes returned: ceil(wait * popularity multiplier)
BlendHolds(task) ==
  LET meta == task.stationMeta[1]
      c == crowdEstimate(meta, task.recentObs, task.stats)
      h == historicalEstimate(task.stats)
      m == getPopularityMultiplier(meta.stallsTotal)
      e == task.result[1]
  IN  /\ (c # NULL /\ h # NULL) =>
            e.etaWaitMinutes =
              Some(RCeil(RMul(RAdd(RMul(Rat(7, 10), c[1]), RMul(Rat(3, 10), h[1])), m)))
      /\ (c # NULL /\ h = NULL) => e.etaWaitMinutes = Some(RCeil(RMul(c[1], m)))

\* C11 as stated: with both estimates the wait before the popularity
\* adjustment is 0.7 * crowdEstimate + 0.3 * historicalEstimate, with the
\* crowd estimate alone it is crowdEstimate; Scenario C gives 15 minutes and
\* sourcesUsed = [crowd_recent, historical].
C11_BlendScenarioC15 ==
  \A i \in DOMAIN tasks :
    Computed(tasks[i]) =>
      /\ BlendHolds(tasks[i])
      /\ ScenarioC(tasks[i]) =>
           /\ tasks[i].result[1].etaWaitMinutes = Some(15)
           /\ tasks[i].result[1].sourcesUsed = <<"crowd_recent", "historical">>

\* C11 amended: the two blend rules hold as stated; in Scenario C the session
\* time of the crowd estimate is the historical median 30 (not the DC-fast
\* default 25), so crowdEstimate = 2 * 30 / 4 = 15 and the result is
\* ceil((15 * 0.7 + 30 * 0.3) * 0.8) = ceil(15.6) = 16 minutes, with
\* sourcesUsed = [crowd_recent, historical].
C11_BlendScenarioC16 ==
  \A i \in DOMAIN tasks :
    Computed(tasks[i]) =>
      /\ BlendHolds(tasks[i])
      /\ ScenarioC(tasks[i]) =>
           /\ crowdEstimate(tasks[i].stationMeta[1], tasks[i].recentObs,
                            tasks[i].stats) = Some(Int2Rat(15))
           /\ tasks[i].result[1].etaWaitMinutes = Some(16)
           /\ tasks[i].result[1].sourcesUsed = <<"crowd_recent", "historical">>

\* Scenario C has been estimated
C11_Witness ==
  \E i \in DOMAIN tasks :
    /\ ScenarioC(tasks[i])
    /\ tasks[i].result[1].mode = EstimationMode.fallback
    /\ tasks[i].result[1].sourcesUsed = <<"crowd_recent", "historical">>

\* the rows of session_stats_hourly for the station and the day and hour the
\* call took from the clock
SlotRows(task) ==
  {r \in sessionStats : /\ r.station_id = task.id
                        /\ r.day_of_week = task.dayOfWeek
                        /\ r.hour_of_day = task.hourOfDay}

\* C12: when the historical record of the current day and hour was found
\* and there is no numeric crowd estimate, historicalEstimate is the
\* record's medianSessionMin, the minutes returned are
\* ceil(0.5 * historicalEstimate * popularity multiplier), and sourcesUsed
\* has the historical tag and not the heuristic tag.
C12_HistoricalOnly ==
  \A i \in DOMAIN tasks :
    (/\ Computed(tasks[i])
     /\ tasks[i].stats # NULL
     /\ crowdEstimate(tasks[i].stationMeta[1], tasks[i].recentObs, tasks[i].stats) = NULL)
    => LET e == tasks[i].result[1]
           h == historicalEstimate(tasks[i].stats)
           m == getPopularityMultiplier(tasks[i].stationMeta[1].stallsTotal)
       IN  /\ Cardinality(SlotRows(tasks[i])) = 1
           /\ \A r \in SlotRows(tasks[i]) :
                ~IsNull(r.median_session_min) => h = r.median_session_min
           /\ e.etaWaitMinutes = Some(RCeil(RMul(RMul(Rat(1, 2), h[1]), m)))
           /\ Includes(e.sourcesUsed, "historical")
           /\ ~Includes(e.sourcesUsed, "heuristic")

\* a station of 9 stalls without recent observations and with a record of
\* median 30: ceil(0.5 * 30 * 1.2) = 18 minutes from the record alone
C12_Witness ==
  \E i \in DOMAIN tasks :
    /\ Computed(tasks[i])
    /\ tasks[i].recentObs = <<>>
    /\ tasks[i].stats # NULL
    /\ tasks[i].stats[1].median_session_min = Int2Rat(30)
    /\ tasks[i].stationMeta[1].stallsTotal = 9
    /\ tasks[i].result[1].etaWaitMinutes = Some(18)
    /\ tasks[i].result[1].sourcesUsed = <<"historical">>

\* C13: an in_queue observation of queuePosition 0 is a queue-report: it is
\* in the set avg(queuePosition) is taken over and adds 0 to the average, so
\* that one such observation alone gives crowdEstimate = 0 and positions 0
\* and 2 average to 1.
C13_ZeroPositionCounted ==
  \A i \in DOMAIN tasks :
    Computed(tasks[i]) =>
      LET reports == SelectSeq(tasks[i].recentObs, IsQueueReport)
          crowd == crowdEstimate(tasks[i].stationMeta[1], tasks[i].recentObs,
                                 tasks[i].stats)
      IN  /\ queueObs(tasks[i].recentObs) = reports
          /\ Len(reports) > 0 =>
               avgQueuePosition(tasks[i].recentObs) =
                 Rat(SumPositions(reports, Len(reports)), Len(reports))
          /\ (Len(reports) > 0 /\ SumPositions(reports, Len(reports)) = 0) =>
               crowd = Some(Int2Rat(0))

\* C14: every fallback estimate has etaWaitMinutes = ceil(wait * m), wait
\* being the blended value and m being 0.8 for stallsTotal <= 4, 1.0 for
\* 5 <= stallsTotal <= 8 and 1.2 for stallsTotal > 8.
C14_PopularityAdjustment ==
  \A i \in DOMAIN tasks :
    (Returned(tasks[i]) /\ tasks[i].result[1].mode = EstimationMode.fallback) =>
      LET meta == tasks[i].stationMeta[1]
          wait == blendedWait(meta, tasks[i].recentObs, tasks[i].stats)
          m == IF meta.stallsTotal <= 4 THEN Rat(8, 10)
               ELSE IF 5 <= meta.stallsTotal /\ meta.stallsTotal <= 8 THEN Int2Rat(1)
               ELSE Rat(12, 10)
      IN  /\ meta.stallsTotal <= 4 \/ (5 <= meta.stallsTotal /\ meta.stallsTotal <= 8)
             \/ meta.stallsTotal > 8
          /\ tasks[i].result[1].etaWaitMinutes = Some(RCeil(RMul(wait, m)))

\* a station of 9 stalls and 150 kW with one queue-report of position 2 and
\* no record: wait = 2 * 25 / 9, and ceil(50/9 * 1.2) = ceil(6.67) = 7
C14_Witness ==
  \E i \in DOMAIN tasks :
    /\ Computed(tasks[i])
    /\ tasks[i].stationMeta[1].stallsTotal = 9
    /\ blendedWait(tasks[i].stationMeta[1], tasks[i].recentObs, tasks[i].stats)
         = Rat(50, 9)
    /\ tasks[i].result[1].etaWaitMinutes = Some(7)

\* C15: every fallback estimate has confidence =
\* clamp(base * max(0.3, 1 - freshnessMinutes/60) * min(1, n/20), 0.3, 0.6),
\* n being the number of recent observations fetched and base being 0.5 if
\* crowd_recent is in sourcesUsed, else 0.4 if historical is, else 0.3.
C15_ConfidenceFormula ==
  \A i \in DOMAIN tasks :
    (Returned(tasks[i]) /\ tasks[i].result[1].mode = EstimationMode.fallback) =>
      LET e == tasks[i].result[1]
          n == Len(tasks[i].recentObs)
          f == freshnessMinutes(tasks[i].recentObs, tasks[i].stats, e.computedAt)
          base == IF "crowd_recent" \in Range(e.sourcesUsed) THEN Rat(1, 2)
                  ELSE IF "historical" \in Range(e.sourcesUsed) THEN Rat(2, 5)
                  ELSE Rat(3, 10)
          fresh == RMax(Rat(3, 10), RAdd(Int2Rat(1), Rat(0 - f, 60)))
          strength == RMin(Int2Rat(1), Rat(n, 20))
          product == RMul(RMul(base, fresh), strength)
      IN  /\ n <= ObservationLimit
          /\ e.confidence =
               (IF RLt(product, Rat(3, 10)) THEN Rat(3, 10)
                ELSE IF RLt(Rat(6, 10), product) THEN Rat(6, 10)
                ELSE product)

\* an estimate from 20 or more observations, the newest 23 minutes old,
\* and a historical record: 0.5 * (1 - 23/60) * 1 = 37/120, inside the clamp
C15_Witness ==
  \E i \in DOMAIN tasks :
    /\ Computed(tasks[i])
    /\ Len(tasks[i].recentObs) >= SignalSaturation
    /\ tasks[i].result[1].sourcesUsed = <<"crowd_recent", "historical">>
    /\ tasks[i].result[1].confidence = Rat(37, 120)

\* queue positions, session durations, historical medians and stall counts
\* in the repository are not negative
NonNegativeInputs ==
  /\ \A r \in DOMAIN observations :
       /\ IsNull(r.queue_position) \/ r.queue_position[1] >= 0
       /\ IsNull(r.session_duration_min) \/ r.session_duration_min[1] >= 0
  /\ \A r \in sessionStats :
       IsNull(r.median_session_min) \/ RLe(Int2Rat(0), r.median_session_min[1])
  /\ \A r \in stations : IsNull(r.stalls_total) \/ r.stalls_total[1] >= 0

\* C16: with queue positions, session durations, historical medians and
\* stall counts that are not negative, the etaWaitMinutes of every Estimate
\* is null or a whole number >= 0.
C16_WaitIsNullOrNatural ==
  NonNegativeInputs =>
    \A i \in DOMAIN tasks :
      Returned(tasks[i]) =>
        LET eta == tasks[i].result[1].etaWaitMinutes
        IN  \/ eta = NULL
            \/ /\ Len(eta) = 1
               /\ eta[1] \in Int
               /\ eta[1] >= 0

\* a station of 8 stalls whose crowd estimate (2 * 30 / 8 = 7.5) is below
\* the historical median 30: ceil((7.5 * 0.7 + 30 * 0.3) * 1.0) = 15
C16_Witness ==
  \E i \in DOMAIN tasks :
    /\ NonNegativeInputs
    /\ Computed(tasks[i])
    /\ tasks[i].stationMeta[1].stallsTotal = 8
    /\ crowdEstimate(tasks[i].stationMeta[1], tasks[i].recentObs, tasks[i].stats)
         = Some(Rat(15, 2))
    /\ tasks[i].result[1].etaWaitMinutes = Some(15)

\* the place of a tag in the order crowd_recent, historical, heuristic
TagRank(tag) ==
  CASE tag = "crowd_recent" -> 1
    [] tag = "historical" -> 2
    [] tag = "heuristic" -> 3
    [] OTHER -> 0

\* C17: every Estimate returned has mode fallback or no_data, never
\* realtime or hybrid, and its sourcesUsed has no duplicates, only tags of
\* {crowd_recent, historical, heuristic} (never realtime_api), in the order
\* crowd_recent, historical, heuristic.
C17_ModesAndSourceOrder ==
  \A i \in DOMAIN tasks :
    Returned(tasks[i]) =>
      LET e == tasks[i].result[1]
      IN  /\ e.mode \in {EstimationMode.fallback, EstimationMode.no_data}
          /\ \A k \in DOMAIN e.sourcesUsed :
               e.sourcesUsed[k] \in {"crowd_recent", "historical", "heuristic"}
          /\ \A k, l \in DOMAIN e.sourcesUsed :
               k # l => e.sourcesUsed[k] # e.sourcesUsed[l]
          /\ \A k, l \in DOMAIN e.sourcesUsed :
               k < l => TagRank(e.sourcesUsed[k]) < TagRank(e.sourcesUsed[l])

\* estimates with two tags: crowd_recent before heuristic (observations of
\* no usable shape, no record) and crowd_recent before historical
C17_Witness ==
  /\ \E i \in DOMAIN tasks :
       /\ Returned(tasks[i])
       /\ tasks[i].result[1].sourcesUsed \in
            {<<"crowd_recent", "heuristic">>, <<"crowd_recent", "historical">>}
       /\ tasks[i].result[1].mode = EstimationMode.fallback

\* what an Estimate says, the time of computation left aside
Fields(e) == <<e.etaWaitMinutes, e.confidence, e.mode, e.sourcesUsed>>

\* two calls for the same station whose reads had the same outcomes and the
\* same answer to the observations query
SameReads(a, b) ==
  /\ a.id = b.id
  /\ a.outcomes = b.outcomes
  /\ a.recentObs = b.recentObs

\* C18: the estimation calls leave the repository unchanged, whatever their
\* number and interleaving, and carry no state from one call to another:
\* every call returns what a stand-alone call returns for the repository,
\* the clock and the answers of its own reads, and two calls with the same
\* reads return the same etaWaitMinutes, confidence, mode and sourcesUsed.
C18_ReadOnlyStateless ==
  /\ [][repo' = repo]_vars
  /\ [](\A i \in DOMAIN tasks :
          Returned(tasks[i]) =>
            Fields(tasks[i].result[1]) = Fields(StandAlone(tasks[i])))
  /\ [](\A i, j \in DOMAIN tasks :
          (Returned(tasks[i]) /\ Returned(tasks[j]) /\ SameReads(tasks[i], tasks[j]))
          => Fields(tasks[i].result[1]) = Fields(tasks[j].result[1]))

\* a batch with two calls for the same existing station has returned: both
\* computed the same fallback estimate from the observations, which are
\* still in the table
C18_Witness ==
  /\ batchPc = "returned"
  /\ observations # EmptyBag
  /\ \E i, j \in DOMAIN tasks :
       /\ i # j
       /\ SameReads(tasks[i], tasks[j])
       /\ tasks[i].recentObs # <<>>
       /\ tasks[i].result[1].mode = EstimationMode.fallback
       /\ Fields(tasks[i].result[1]) = Fields(tasks[j].result[1])

\* a completed-session report: a done_charging observation that has a
\* duration
IsSessionReport(obs) ==
  obs.observation_type = "done_charging" /\ ~IsNull(obs.session_duration_min)

RECURSIVE SumDurations(_, _)
SumDurations(seq, k) ==
  IF k = 0 THEN 0 ELSE SumDurations(seq, k - 1) + seq[k].session_duration_min[1]

NotSessionReport(obs) == ~IsSessionReport(obs)

\* C19: without a queue-report and with at least one completed-session
\* report, crowdEstimate = 0.5 * avg(sessionDurationMin over those reports);
\* with at least one queue-report the completed-session reports have no
\* influence: crowdEstimate is what it is with them taken out of the list.
C19_SessionsOnlyWithoutQueue ==
  \A i \in DOMAIN tasks :
    Computed(tasks[i]) =>
      LET meta == tasks[i].stationMeta[1]
          obs == tasks[i].recentObs
          reports == SelectSeq(obs, IsQueueReport)
          sessions == SelectSeq(obs, IsSessionReport)
          crowd == crowdEstimate(meta, obs, tasks[i].stats)
      IN  /\ (Len(reports) = 0 /\ Len(sessions) > 0) =>
               crowd = Some(RMul(Rat(1, 2),
                                 Rat(SumDurations(sessions, Len(sessions)),
                                     Len(sessions))))
          /\ Len(reports) > 0 =>
               crowd = crowdEstimate(meta, SelectSeq(obs, NotSessionReport),
                                     tasks[i].stats)

\* recent observations exist, none of them a queue-report or a
\* completed-session report
NoUsableShape(task) ==
  /\ Computed(task)
  /\ Len(task.recentObs) > 0
  /\ \A k \in DOMAIN task.recentObs :
       ~IsQueueReport(task.recentObs[k]) /\ ~IsSessionReport(task.recentObs[k])

\* C20: with recent observations none of which is a queue-report or a
\* completed-session report, sourcesUsed has crowd_recent although there is
\* no numeric crowd estimate; the wait is 0.5 * historicalEstimate with a
\* historical record and 0.5 * industry default (tag heuristic) without
\* one, and the confidence is computed from the base 0.5.
C20_TagWithoutCrowdEstimate ==
  \A i \in DOMAIN tasks :
    NoUsableShape(tasks[i]) =>
      LET e == tasks[i].result[1]
          meta == tasks[i].stationMeta[1]
          m == getPopularityMultiplier(meta.stallsTotal)
          D == IF IsNull(meta.maxPowerKw) \/ meta.maxPowerKw[1] < 50 THEN 120 ELSE 25
          f == freshnessMinutes(tasks[i].recentObs, tasks[i].stats, e.computedAt)
          product == RMul(RMul(Rat(1, 2), freshnessFactor(f)),
                          signalStrength(Len(tasks[i].recentObs)))
      IN  /\ e.sourcesUsed[1] = "crowd_recent"
          /\ crowdEstimate(meta, tasks[i].recentObs, tasks[i].stats) = NULL
          /\ tasks[i].stats # NULL =>
               /\ e.sourcesUsed = <<"crowd_recent", "historical">>
               /\ e.etaWaitMinutes =
                    Some(RCeil(RMul(RMul(Rat(1, 2), tasks[i].stats[1].median_session_min), m)))
          /\ tasks[i].stats = NULL =>
               /\ e.sourcesUsed = <<"crowd_recent", "heuristic">>
               /\ e.etaWaitMinutes = Some(RCeil(RMul(Rat(D, 2), m)))
          /\ e.confidence = RMax(Rat(3, 10), RMin(Rat(6, 10), product))

\* 20 or more observations of type available, the newest of this minute,
\* and no record: tags [crowd_recent, heuristic], the heuristic wait of 10
\* minutes (4 stalls, 150 kW) and confidence 0.5 * 1 * 1 = 0.5
C20_Witness ==
  \E i \in DOMAIN tasks :
    /\ NoUsableShape(tasks[i])
    /\ tasks[i].stats = NULL
    /\ tasks[i].result[1].sourcesUsed = <<"crowd_recent", "heuristic">>
    /\ tasks[i].result[1].etaWaitMinutes = Some(10)
    /\ tasks[i].result[1].confidence = Rat(1, 2)

\* the newest of the observations of a list
NewestObservedAt(recentObs) ==
  CHOOSE at \in {recentObs[k].observed_at : k \in DOMAIN recentObs} :
    \A k \in DOMAIN recentObs : recentObs[k].observed_at <= at

\* whole minutes from at to t
WholeMinutes(t, at) == (t - at) \div 60000

\* C21: the freshnessMinutes that goes into the confidence is the smaller
\* of (a) the age in whole minutes of the newest recent observation, 60
\* without one, and (b) the age in whole minutes of the last computation of
\* the historical record that was found; (a) alone without a record.
C21_FreshnessIsSmallerAge ==
  \A i \in DOMAIN tasks :
    Computed(tasks[i]) =>
      LET e == tasks[i].result[1]
          obs == tasks[i].recentObs
          a == IF obs = <<>> THEN 60
               ELSE WholeMinutes(e.computedAt, NewestObservedAt(obs))
          b == WholeMinutes(e.computedAt, tasks[i].stats[1].last_computed_at)
          f == IF tasks[i].stats = NULL THEN a ELSE IF b < a THEN b ELSE a
      IN  /\ freshnessMinutes(obs, tasks[i].stats, e.computedAt) = f
          /\ e.confidence = calculateConfidence(e.sourcesUsed, f, Len(obs))

\* 20 or more observations, the newest at least 23 minutes old, and a record
\* computed 5 minutes ago: the confidence 0.5 * (1 - 5/60) = 11/24 is that
\* of the record's age
C21_Witness ==
  \E i \in DOMAIN tasks :
    /\ Computed(tasks[i])
    /\ Len(tasks[i].recentObs) >= SignalSaturation
    /\ tasks[i].stats # NULL
    /\ AgeMinutes(tasks[i].result[1].computedAt, tasks[i].recentObs[1].observed_at) >= 23
    /\ AgeMinutes(tasks[i].result[1].computedAt, tasks[i].stats[1].last_computed_at) = 5
    /\ tasks[i].result[1].confidence = Rat(11, 24)

\* an in_queue observation without a position or a done_charging
\* observation without a duration
IsMalformed(obs) ==
  \/ obs.observation_type = "in_queue" /\ IsNull(obs.queue_position)
  \/ obs.observation_type = "done_charging" /\ IsNull(obs.session_duration_min)

WellShaped(obs) == ~IsMalformed(obs)

\* C22: a malformed observation does not make the estimation fail and is in
\* no average: the numeric crowd estimate is what it is without the
\* malformed observations, while they count in the number of recent
\* observations and the newest of them sets the freshness.
C22_MalformedContributesNothing ==
  \A i \in DOMAIN tasks :
    (Computed(tasks[i]) /\ \E k \in DOMAIN tasks[i].recentObs :
                              IsMalformed(tasks[i].recentObs[k])) =>
      LET e == tasks[i].result[1]
          meta == tasks[i].stationMeta[1]
          obs == tasks[i].recentObs
      IN  /\ e.mode = EstimationMode.fallback
          /\ crowdEstimate(meta, obs, tasks[i].stats)
               = crowdEstimate(meta, SelectSeq(obs, WellShaped), tasks[i].stats)
          /\ e.confidence =
               calculateConfidence(e.sourcesUsed,
                                   freshnessMinutes(obs, tasks[i].stats, e.computedAt),
                                   Len(obs))
          /\ tasks[i].stats = NULL =>
               freshnessMinutes(obs, tasks[i].stats, e.computedAt)
                 = WholeMinutes(e.computedAt, NewestObservedAt(obs))

\* the newest observation is an in_queue observation without a position,
\* and an older well-shaped report gives the numeric crowd estimate
C22_Witness ==
  \E i \in DOMAIN tasks :
    /\ Computed(tasks[i])
    /\ Len(tasks[i].recentObs) >= 2
    /\ tasks[i].recentObs[1].observation_type = "in_queue"
    /\ IsMalformed(tasks[i].recentObs[1])
    /\ crowdEstimate(tasks[i].stationMeta[1], tasks[i].recentObs, tasks[i].stats) # NULL
    /\ tasks[i].result[1].mode = EstimationMode.fallback

\* the call has the answer of a recent-observations query that ran
ObsAnswered(task) ==
  /\ Len(task.outcomes) >= 2
  /\ task.outcomes[2] = "ok"

\* the list is ordered newest first and has at most 50 rows; cutoff is the
\* clock of the call minus 2 hours
NewestFirstAtMost50(task) ==
  /\ task.cutoff + 2 * 60 * 60 * 1000 <= now
  /\ task.cutoff + 2 * 60 * 60 * 1000 >= Now0
  /\ \A k \in 1..(Len(task.recentObs) - 1) :
       task.recentObs[k].observed_at >= task.recentObs[k + 1].observed_at
  /\ Len(task.recentObs) <= 50

\* C23 as stated: the recent-observations read returns only observations of
\* the station asked for that are strictly newer than now minus 2 hours,
\* newest first, at most 50 of them.
C23_StrictlyNewerThanCutoff ==
  \A i \in DOMAIN tasks :
    ObsAnswered(tasks[i]) =>
      /\ NewestFirstAtMost50(tasks[i])
      /\ \A k \in DOMAIN tasks[i].recentObs :
           /\ tasks[i].recentObs[k].station_id = tasks[i].id
           /\ tasks[i].recentObs[k].observed_at > tasks[i].cutoff

\* the rows of the table the query of the call selects
InWindow(task) ==
  {r \in DOMAIN observations :
     r.station_id = task.id /\ r.observed_at >= task.cutoff}

Occurrences(seq, r) == Cardinality({k \in DOMAIN seq : seq[k] = r})

\* C23 amended: the read returns only observations of the station asked
\* for whose observedAt is at or after now minus 2 hours (an observation
\* exactly at the cutoff is included), newest first, and the 50 newest of
\* them when there are more, so the observation count never exceeds 50.
C23_AtOrAfterCutoff ==
  \A i \in DOMAIN tasks :
    ObsAnswered(tasks[i]) =>
      LET obs == tasks[i].recentObs
          window == InWindow(tasks[i])
      IN  /\ NewestFirstAtMost50(tasks[i])
          /\ \A k \in DOMAIN obs : obs[k] \in window
          /\ \A r \in window : Occurrences(obs, r) <= observations[r]
          /\ Len(obs) = Min(50, BagCardinality([r \in window |-> observations[r]]))
          /\ \A r \in window :
               Occurrences(obs, r) < observations[r] =>
                 \A k \in DOMAIN obs : obs[k].observed_at >= r.observed_at

\* more than 50 rows in the window, 50 returned, one of them exactly at the
\* cutoff
C23_Witness ==
  \E i \in DOMAIN tasks :
    /\ ObsAnswered(tasks[i])
    /\ BagCardinality([r \in InWindow(tasks[i]) |-> observations[r]]) > 50
    /\ Len(tasks[i].recentObs) = 50
    /\ \E k \in DOMAIN tasks[i].recentObs :
         tasks[i].recentObs[k].observed_at = tasks[i].cutoff

\* the rows of session_stats_hourly for a station and the day and hour of
\* the wall clock t (UTC)
RowsOfSlot(id, t) ==
  {r \in sessionStats : /\ r.station_id = id
                        /\ r.day_of_week = ((t \div 86400000) + 4) % 7
                        /\ r.hour_of_day = (t \div 3600000) % 24}

\* C24: the historical signal comes only from the row of the station and
\* the current day and hour: the record used is that row, and without a row
\* for the slot there is no historical estimate and no historical tag,
\* whatever rows exist for other hours, days or stations.
C24_PointLookup ==
  \A i \in DOMAIN tasks :
    Computed(tasks[i]) =>
      LET e == tasks[i].result[1]
          slot == RowsOfSlot(tasks[i].id, e.computedAt)
      IN  /\ slot = {} =>
               /\ tasks[i].stats = NULL
               /\ historicalEstimate(tasks[i].stats) = NULL
               /\ ~Includes(e.sourcesUsed, "historical")
          /\ tasks[i].stats # NULL =>
               \E r \in slot :
                 /\ tasks[i].stats[1].station_id = r.station_id
                 /\ tasks[i].stats[1].day_of_week = r.day_of_week
                 /\ tasks[i].stats[1].hour_of_day = r.hour_of_day
                 /\ ~IsNull(r.median_session_min) =>
                      historicalEstimate(tasks[i].stats) = r.median_session_min

\* the table has rows for the hour before, the day before and another
\* station, none for the slot: the estimate is the heuristic one
C24_Witness ==
  \E i \in DOMAIN tasks :
    /\ Computed(tasks[i])
    /\ tasks[i].outcomes[3] = "ok"
    /\ Cardinality(sessionStats) = 3
    /\ RowsOfSlot(tasks[i].id, tasks[i].result[1].computedAt) = {}
    /\ tasks[i].stats = NULL
    /\ tasks[i].result[1].sourcesUsed = <<"heuristic">>

\* the station row of the call has a stall count of 0 or none
ZeroOrUnknownStalls(task) ==
  \E r \in stations :
    /\ r.id = task.id
    /\ r.stalls_total \in {NULL, Some(0)}

\* C25: for a station whose stallsTotal is 0 or unknown, the queue-based
\* crowd estimate divides by 4, the popularity multiplier is 0.8 and
\* etaWaitMinutes is a whole number.
C25_ZeroStallsGuarded ==
  \A i \in DOMAIN tasks :
    (Computed(tasks[i]) /\ ZeroOrUnknownStalls(tasks[i])) =>
      LET meta == tasks[i].stationMeta[1]
          obs == tasks[i].recentObs
          e == tasks[i].result[1]
      IN  /\ Len(queueObs(obs)) > 0 =>
               crowdEstimate(meta, obs, tasks[i].stats) =
                 Some(RDiv(RMul(avgQueuePosition(obs), sessionTime(meta, tasks[i].stats)),
                           Int2Rat(4)))
          /\ e.etaWaitMinutes =
               Some(RCeil(RMul(blendedWait(meta, obs, tasks[i].stats), Rat(8, 10))))
          /\ e.etaWaitMinutes[1] \in Nat

\* a station with stalls_total = 0 and one queue-report of position 2:
\* crowdEstimate = 2 * 25 / 4 = 12.5 and ceil(12.5 * 0.8) = 10 minutes
C25_Witness ==
  \E i \in DOMAIN tasks :
    /\ Computed(tasks[i])
    /\ tasks[i].stationMeta[1].stallsTotal = 0
    /\ Len(queueObs(tasks[i].recentObs)) > 0
    /\ crowdEstimate(tasks[i].stationMeta[1], tasks[i].recentObs, tasks[i].stats)
         = Some(Rat(25, 2))
    /\ tasks[i].result[1].etaWaitMinutes = Some(10)

\* C26: an estimate for an existing station computed without any recent
\* observation has confidence exactly 0.3, with a historical record of any
\* age as well as on the heuristic path.
C26_NoObservationsConfidence ==
  \A i \in DOMAIN tasks :
    (Computed(tasks[i]) /\ tasks[i].recentObs = <<>>) =>
      /\ tasks[i].result[1].sourcesUsed \in {<<"historical">>, <<"heuristic">>}
      /\ tasks[i].result[1].confidence = Rat(3, 10)

\* a record computed 5 minutes ago and no observation: base 0.4 and
\* freshness factor 55/60, yet confidence 0.3
C26_Witness ==
  \E i \in DOMAIN tasks :
    /\ Computed(tasks[i])
    /\ tasks[i].recentObs = <<>>
    /\ tasks[i].stats # NULL
    /\ AgeMinutes(tasks[i].result[1].computedAt, tasks[i].stats[1].last_computed_at) <= 6
    /\ tasks[i].result[1].sourcesUsed = <<"historical">>
    /\ tasks[i].result[1].confidence = Rat(3, 10)

\* no timestamp the estimate was computed from is ahead of the clock
NoFutureTimestamps(task) ==
  /\ \A k \in DOMAIN task.recentObs :
       task.recentObs[k].observed_at <= task.result[1].computedAt
  /\ task.stats # NULL => task.stats[1].last_computed_at <= task.result[1].computedAt

\* C27: with no observation or record timestamp in the future, the
\* confidence is at most 0.5, and it is above 0.3 only with at least 13
\* recent observations and freshnessMinutes below 24.
C27_ConfidenceAtMostHalf ==
  \A i \in DOMAIN tasks :
    (Computed(tasks[i]) /\ NoFutureTimestamps(tasks[i])) =>
      LET e == tasks[i].result[1]
          f == freshnessMinutes(tasks[i].recentObs, tasks[i].stats, e.computedAt)
      IN  /\ RLe(e.confidence, Rat(1, 2))
          /\ RLt(Rat(3, 10), e.confidence) =>
               /\ Len(tasks[i].recentObs) >= 13
               /\ f < 24

\* 13 observations, the newest of this minute: 0.5 * 1 * 13/20 = 0.325
C27_Witness ==
  \E i \in DOMAIN tasks :
    /\ Computed(tasks[i])
    /\ NoFutureTimestamps(tasks[i])
    /\ Len(tasks[i].recentObs) = 13
    /\ tasks[i].result[1].confidence = Rat(13, 40)

\* C28: the sourcesUsed of a fallback estimate is one of [crowd_recent],
\* [crowd_recent, historical], [historical], [heuristic] and
\* [crowd_recent, heuristic]; heuristic and historical never come together,
\* and heuristic comes with crowd_recent exactly when recent observations
\* exist, give no numeric crowd estimate, and no historical record was found.
C28_SourceLists ==
  \A i \in DOMAIN tasks :
    (Returned(tasks[i]) /\ tasks[i].result[1].mode = EstimationMode.fallback) =>
      LET used == tasks[i].result[1].sourcesUsed
          crowd == crowdEstimate(tasks[i].stationMeta[1], tasks[i].recentObs,
                                 tasks[i].stats)
      IN  /\ used \in {<<"crowd_recent">>, <<"crowd_recent", "historical">>,
                       <<"historical">>, <<"heuristic">>,
                       <<"crowd_recent", "heuristic">>}
          /\ ~("heuristic" \in Range(used) /\ "historical" \in Range(used))
          /\ used = <<"crowd_recent", "heuristic">> <=>
               /\ tasks[i].recentObs # <<>>
               /\ crowd = NULL
               /\ tasks[i].stats = NULL

\* an in_queue observation without a position and no record: the list is
\* [crowd_recent, heuristic]
C28_Witness ==
  \E i \in DOMAIN tasks :
    /\ Returned(tasks[i])
    /\ tasks[i].result[1].mode = EstimationMode.fallback
    /\ tasks[i].recentObs # <<>>
    /\ \A k \in DOMAIN tasks[i].recentObs :
         tasks[i].recentObs[k].observation_type = "in_queue"
    /\ tasks[i].stats = NULL
    /\ tasks[i].result[1].sourcesUsed = <<"crowd_recent", "heuristic">>

(* C29: the observations POST /api/observations accepts never give a       *)
(* numeric crowd estimate.  Every stored row has one of the four types of  *)
(* the schema and no session duration; for every estimate computed over    *)
(* them the crowd estimate is null, etaWaitMinutes is the value computed   *)
(* from the same station and record with no observations at all, and the   *)
(* source list is that of the empty case with crowd_recent put in front    *)
(* when observations were read.                                            *)
C29_PostedObservationsGiveNoCrowdEstimate ==
  /\ \A row \in BagToSet(observations) :
       /\ row.observation_type \in SubmittableTypes
       /\ row.session_duration_min = NULL
  /\ \A i \in DOMAIN tasks :
       (Returned(tasks[i]) /\ tasks[i].result[1].mode = EstimationMode.fallback) =>
         LET meta == tasks[i].stationMeta[1]
             obs == tasks[i].recentObs
             stats == tasks[i].stats
         IN  /\ crowdEstimate(meta, obs, stats) = NULL
             /\ tasks[i].result[1].etaWaitMinutes = Some(waitMinutes(meta, <<>>, stats))
             /\ tasks[i].result[1].sourcesUsed =
                  (IF obs # <<>> THEN <<"crowd_recent">> ELSE <<>>)
                    \o sources(meta, <<>>, stats)

\* an estimate computed over a posted report with queue position 2
C29_Witness ==
  \E i \in DOMAIN tasks :
    /\ Returned(tasks[i])
    /\ tasks[i].result[1].mode = EstimationMode.fallback
    /\ \E k \in DOMAIN tasks[i].recentObs :
         tasks[i].recentObs[k].queue_position = Some(2)
    /\ \E r \in DOMAIN requests : requests[r].status = 200
    /\ tasks[i].result[1].sourcesUsed[1] = "crowd_recent"
    /\ tasks[i].result[1].etaWaitMinutes =
         Some(waitMinutes(tasks[i].stationMeta[1], <<>>, tasks[i].stats))

====
